---- MODULE Spec2Model ----
(***************************************************************************)
(* Token-by-token generation engines of lm_server:                         *)
(*   - ChatglmCppEngine (api/core/chatglm_cpp_engine.py)                   *)
(*   - generate_stream_chatglm_v3_cpp (api/generation/chatglm.py)          *)
(*   - Llama._create_completion / Llama.generate / Llama.eval              *)
(*     (docker/llama-cpp-python/llama_cpp/llama.py)                        *)
(* Text is a sequence of integers: bytes for llama.cpp (Python bytes),     *)
(* code points for chatglm.cpp (Python str).                               *)
(***************************************************************************)
EXTENDS Integers, Sequences, FiniteSets, TLC

VARIABLES pc, engine, stream, prompt_tokens, max_tokens, stop, steps, chunks, err, exit,
          input_ids, n_past, output_ids, total_len, previous_text, response, stop_found,
          completion_tokens, text, returned_tokens, finish_reason, multibyte_fix,
          n_tokens, self_input_ids, gen_tokens,
          kwargs, gen_config, temperature, weights, kv, scores, has_cache, cache, corrupted,
          yield_base, served, cold,
          lookup, other, mirostat_mode, mu_seed, mu,
          route_pc, first_response, taken, pulled, hand, chan, delivered,
          logits, last_tokens, penalize_nl, candidates

vars == <<pc, engine, stream, prompt_tokens, max_tokens, stop, steps, chunks, err, exit,
          input_ids, n_past, output_ids, total_len, previous_text, response, stop_found,
          completion_tokens, text, returned_tokens, finish_reason, multibyte_fix,
          n_tokens, self_input_ids, gen_tokens,
          kwargs, gen_config, temperature, weights, kv, scores, has_cache, cache, corrupted,
          yield_base, served, cold,
          lookup, other, mirostat_mode, mu_seed, mu,
          route_pc, first_response, taken, pulled, hand, chan, delivered,
          logits, last_tokens, penalize_nl, candidates>>

glmVars == <<input_ids, n_past, output_ids, total_len, previous_text, response, stop_found>>

llamaVars == <<completion_tokens, text, returned_tokens, finish_reason, multibyte_fix,
               n_tokens, self_input_ids, gen_tokens>>

reqVars == <<engine, stream, prompt_tokens, max_tokens, stop, kwargs, gen_config>>

\* the llama.cpp context behind a Llama object, its state cache, and the
\* consumer of the chunk stream
ctxVars == <<temperature, weights, kv, scores, has_cache, cache, corrupted, yield_base,
             served, cold>>

\* the mirostat state of Llama.sample
samplerVars == <<mirostat_mode, mu_seed, mu>>

\* the chat route: the first response it pulls, the event publisher and the
\* channel to the consumer
routeVars == <<route_pc, first_response, taken, pulled, hand, chan, delivered>>

\* a call of the penalty stage of Llama.sample: the logits row, the recent
\* tokens, the flag and the candidates it leaves
penaltyVars == <<logits, last_tokens, penalize_nl, candidates>>

\* the outcome of the cache lookup of the latest request, a second generation
\* on the same Llama object, the sampler and the route
auxVars == <<lookup, other, mirostat_mode, mu_seed, mu,
             route_pc, first_response, taken, pulled, hand, chan, delivered,
             logits, last_tokens, penalize_nl, candidates>>

(***************************************************************************)
(* Bounds of the model.                                                    *)
(***************************************************************************)
MaxPromptLen == 3

MaxLength == 4

NCtx == 5

(***************************************************************************)
(* Python sequence helpers.                                                *)
(***************************************************************************)
Min(a, b) == IF a < b THEN a ELSE b

Max(a, b) == IF a > b THEN a ELSE b

\* s[:n] for n >= 0
Take(s, n) == SubSeq(s, 1, Min(n, Len(s)))

\* s[n:] for n >= 0
Drop(s, n) == SubSeq(s, Min(n, Len(s)) + 1, Len(s))

\* s[-j:] for j >= 1
LastN(s, j) == SubSeq(s, Max(Len(s) - j, 0) + 1, Len(s))

\* s.endswith(p)
EndsWith(s, p) == Len(p) <= Len(s) /\ SubSeq(s, Len(s) - Len(p) + 1, Len(s)) = p

\* the positions (0-based) at which p occurs in s
Occurrences(s, p) == {i \in 0..(Len(s) - Len(p)) : SubSeq(s, i + 1, i + Len(p)) = p}

\* p in s
Contains(s, p) == Occurrences(s, p) # {}

SetMin(S) == CHOOSE x \in S : \A y \in S : x <= y

SetMax(S) == CHOOSE x \in S : \A y \in S : x >= y

\* s.find(p) / s.index(p): the first occurrence, -1 when there is none
Find(s, p) == IF Contains(s, p) THEN SetMin(Occurrences(s, p)) ELSE -1

(***************************************************************************)
(* UTF-8.                                                                  *)
(***************************************************************************)
RECURSIVE BitAnd(_, _)
BitAnd(a, b) == IF a = 0 \/ b = 0 THEN 0
                ELSE (a % 2) * (b % 2) + 2 * BitAnd(a \div 2, b \div 2)

\* number of bytes of the sequence a lead byte announces, 0 for a byte that cannot lead
Utf8SeqLen(b) == IF b < 128 THEN 1
                 ELSE IF b >= 194 /\ b <= 223 THEN 2
                 ELSE IF b >= 224 /\ b <= 239 THEN 3
                 ELSE IF b >= 240 /\ b <= 244 THEN 4
                 ELSE 0

IsCont(b) == b >= 128 /\ b <= 191

\* a complete code point starts at position i of bs
CompleteAt(bs, i) == LET n == Utf8SeqLen(bs[i])
                     IN  /\ n > 0
                         /\ i + n - 1 <= Len(bs)
                         /\ \A k \in 1..(n - 1) : IsCont(bs[i + k])

RECURSIVE Utf8ValidFrom(_, _)
Utf8ValidFrom(bs, i) == IF i > Len(bs) THEN TRUE
                        ELSE IF CompleteAt(bs, i) THEN Utf8ValidFrom(bs, i + Utf8SeqLen(bs[i]))
                        ELSE FALSE

\* bs.decode("utf-8") does not raise UnicodeError
Utf8Valid(bs) == Utf8ValidFrom(bs, 1)

RECURSIVE Utf8IgnoreFrom(_, _)
Utf8IgnoreFrom(bs, i) ==
    IF i > Len(bs) THEN <<>>
    ELSE IF CompleteAt(bs, i)
         THEN SubSeq(bs, i, i + Utf8SeqLen(bs[i]) - 1) \o Utf8IgnoreFrom(bs, i + Utf8SeqLen(bs[i]))
         ELSE Utf8IgnoreFrom(bs, i + 1)

\* bs.decode("utf-8", errors="ignore"), as the UTF-8 bytes of the resulting str
Utf8Ignore(bs) == Utf8IgnoreFrom(bs, 1)

ReplacementChar == 65533

CodePoint(bs, i) == LET n == Utf8SeqLen(bs[i])
                    IN  IF n = 1 THEN bs[i]
                        ELSE IF n = 2 THEN (bs[i] - 192) * 64 + (bs[i + 1] - 128)
                        ELSE IF n = 3 THEN (bs[i] - 224) * 4096 + (bs[i + 1] - 128) * 64
                                           + (bs[i + 2] - 128)
                        ELSE (bs[i] - 240) * 262144 + (bs[i + 1] - 128) * 4096
                             + (bs[i + 2] - 128) * 64 + (bs[i + 3] - 128)

\* length of the maximal ill-formed run starting at i: a lead byte and the
\* continuation bytes that follow it, or one stray byte
RECURSIVE ContRun(_, _, _)
ContRun(bs, i, left) == IF left = 0 \/ i > Len(bs) \/ ~IsCont(bs[i]) THEN 0
                        ELSE 1 + ContRun(bs, i + 1, left - 1)

IllFormedLen(bs, i) == IF Utf8SeqLen(bs[i]) <= 1 THEN 1
                       ELSE 1 + ContRun(bs, i + 1, Utf8SeqLen(bs[i]) - 1)

RECURSIVE Utf8ReplaceFrom(_, _)
Utf8ReplaceFrom(bs, i) ==
    IF i > Len(bs) THEN <<>>
    ELSE IF CompleteAt(bs, i)
         THEN <<CodePoint(bs, i)>> \o Utf8ReplaceFrom(bs, i + Utf8SeqLen(bs[i]))
         ELSE <<ReplacementChar>> \o Utf8ReplaceFrom(bs, i + IllFormedLen(bs, i))

\* bytes -> str with U+FFFD for every ill-formed run, as code points
Utf8Replace(bs) == Utf8ReplaceFrom(bs, 1)

(***************************************************************************)
(* chatglm.cpp: vocabulary of the model runtime and tokenizer.decode.      *)
(***************************************************************************)
GlmEos == 2

GlmExtraEos == 7

\* "<|observation|>"
Observation == <<60, 124, 111, 98, 115, 101, 114, 118, 97, 116, 105, 111, 110, 124, 62>>

\* the bytes of each token of the vocabulary: "a", ",", "<|observ", "ation|>",
\* the first two bytes of U+20AC, its last byte; the eos tokens decode to ""
GlmPiece == (GlmEos :> <<>>) @@ (GlmExtraEos :> <<>>) @@ (11 :> <<97>>) @@ (12 :> <<44>>)
            @@ (13 :> <<60, 124, 111, 98, 115, 101, 114, 118>>)
            @@ (14 :> <<97, 116, 105, 111, 110, 124, 62>>)
            @@ (15 :> <<226, 130>>) @@ (16 :> <<172>>)

GlmVocab == DOMAIN GlmPiece

RECURSIVE GlmBytes(_)
GlmBytes(ids) == IF ids = <<>> THEN <<>> ELSE GlmPiece[Head(ids)] \o GlmBytes(Tail(ids))

\* tokenizer.decode(output_ids): ill-formed bytes come out as U+FFFD
GlmDecode(ids) == Utf8Replace(GlmBytes(ids))

\* the characters after which create_steam_completion withholds the text
Punctuation == {44, 33, 58, 59, 63, ReplacementChar}

EndsWithPunct(s) == s # <<>> /\ s[Len(s)] \in Punctuation

(***************************************************************************)
(* apply_stopping_strings                                                  *)
(***************************************************************************)
\* index of the first string of the list that occurs in reply, 0 if none
RECURSIVE FirstFound(_, _, _)
FirstFound(reply, stop_strings, k) ==
    IF k > Len(stop_strings) THEN 0
    ELSE IF Find(reply, stop_strings[k]) # -1 THEN k
    ELSE FirstFound(reply, stop_strings, k + 1)

\* the j of the inner loop: the largest j in len(string)-1 .. 1 with
\* reply[-j:] == string[:j], 0 if the loop ends without a break
PartialMatch(reply, string) ==
    LET js == {j \in 1..(Len(string) - 1) : LastN(reply, j) = Take(string, j)}
    IN  IF js = {} THEN 0 ELSE SetMax(js)

\* the second loop: the first string of the list with a partial match decides
RECURSIVE TrimPartial(_, _, _)
TrimPartial(reply, stop_strings, k) ==
    IF k > Len(stop_strings) THEN reply
    ELSE IF PartialMatch(reply, stop_strings[k]) > 0
         THEN Take(reply, Len(reply) - PartialMatch(reply, stop_strings[k]))
         ELSE TrimPartial(reply, stop_strings, k + 1)

\* <<reply, stop_found>>
apply_stopping_strings(reply, stop_strings) ==
    LET k == FirstFound(reply, stop_strings, 1)
    IN  IF k > 0 THEN <<Take(reply, Find(reply, stop_strings[k])), TRUE>>
        ELSE <<TrimPartial(reply, stop_strings, 1), FALSE>>

(***************************************************************************)
(* Requests.                                                               *)
(***************************************************************************)
Prompts == {Take(<<1, 2, 3, 4, 5, 6, 7, 8>>, n) : n \in 1..MaxPromptLen}

\* the `stop` field of a chat request: absent, or the stop string "a"
ReqStops == {<<>>, << <<97>> >>}

\* a local variable that has not been assigned yet
Unbound == <<-1>>

\* a usage block whose total leaves out the prompt
UsageTotalOmitsPrompt(p, c, t) ==
    [prompt_tokens |-> p, completion_tokens |-> c, total_tokens |-> c]

Usage(p, c, t) == [prompt_tokens |-> p, completion_tokens |-> c, total_tokens |-> t]

\* None, for a request field that is absent
None == -999

\* the chat request: top_p = 1.0, temperature = 0.7 and frequency_penalty = 0.0
\* unless the request sets them (in hundredths)
DefaultSampling == [top_p |-> 100, temperature |-> 70, frequency_penalty |-> 0]

\* the sampling fields a request may carry
SamplingChoices ==
    [top_p : {None, -50, 0, 100}, temperature : {None, 70}, frequency_penalty : {-100, 0, 150}]

\* ChatglmCppEngine.apply: the GenerationConfig built from the request
GenerationConfig(kw, m, n_input) ==
    LET repetition_penalty == kw.frequency_penalty
    IN  [max_length |-> m, max_new_tokens |-> m - n_input, max_context_length |-> m,
         top_k |-> 0,
         top_p |-> IF kw.top_p # None THEN kw.top_p ELSE 70,
         temperature |-> IF kw.temperature # None THEN kw.temperature ELSE 95,
         repetition_penalty |-> IF repetition_penalty > 0 THEN repetition_penalty ELSE 100]

\* no GenerationConfig was built yet
NoConfig == GenerationConfig(DefaultSampling, 0, 0)

\* the first generation served by the Llama object, kept for comparison
NoRun == [prompt_tokens |-> <<>>, max_tokens |-> 0, stop |-> <<>>, temperature |-> 0,
          completion_tokens |-> <<>>, text |-> <<>>]

\* no cache lookup was made by the latest request
NoLookup == [hit |-> 0, loads |-> FALSE]

\* no second generation runs on the Llama object
NoOther == [pc |-> "idle", tokens |-> <<>>, sampled |-> 0]

\* no chunk: the value of a chunk variable of the route that holds nothing
NoChunk == [role |-> "none", has_content |-> FALSE, content |-> <<>>,
            finish_reason |-> "absent"]

\* the state of the engines after construction, but for the cache, the
\* weights and the locals of a call
InitObjects ==
    /\ engine = "none" /\ stream = FALSE /\ prompt_tokens = <<>>
    /\ max_tokens = 0 /\ steps = 0 /\ chunks = <<>> /\ err = "none"
    /\ exit = "none"
    /\ input_ids = <<>> /\ n_past = 0 /\ output_ids = <<>> /\ total_len = 0
    /\ previous_text = <<>>
    /\ completion_tokens = <<>> /\ text = <<>> /\ returned_tokens = 0
    /\ finish_reason = "null" /\ multibyte_fix = 0
    /\ n_tokens = 0 /\ self_input_ids = <<>> /\ gen_tokens = <<>>
    /\ kwargs = DefaultSampling /\ gen_config = NoConfig
    /\ temperature = 1 /\ kv = <<>> /\ scores = <<>>
    /\ cache = <<>> /\ corrupted = {} /\ yield_base = 0
    /\ served = 0 /\ cold = NoRun
    /\ lookup = NoLookup /\ other = NoOther
    /\ mirostat_mode = 0 /\ mu_seed = 0 /\ mu = 0
    /\ route_pc = "none" /\ first_response = NoChunk /\ taken = 0 /\ pulled = 0
    /\ hand = NoChunk /\ chan = <<>> /\ delivered = <<>>
    /\ penalize_nl = TRUE /\ candidates = <<>>

\* no request has been made: no stop strings, the locals of the decode loop
\* are unassigned
InitEngines ==
    /\ InitObjects
    /\ pc = "idle" /\ stop = <<>> /\ response = Unbound /\ stop_found = "unbound"
    /\ logits = <<>> /\ last_tokens = {}

\* no cache is set (Llama.__init__: self.cache = None)
Init == InitEngines /\ has_cache = FALSE /\ weights = 0

(***************************************************************************)
(* ChatglmCppEngine                                                        *)
(***************************************************************************)
\* a cursor that counts the token about to be appended
ProcessedAfterAppend(ids) == Len(ids) + 1

\* n_past = len(input_ids), taken after the call and before the append
Processed(ids) == Len(ids)

\* create_chat_completion: apply() builds input_ids and gen_config from the
\* request (its `stop` field is not read; encode_messages keeps at most
\* max_tokens prompt tokens), then the streaming or the non-streaming
\* completion starts
GlmStartWith(S, P, M, ST, KW) ==
    /\ pc = "idle"
    /\ \E s \in S, p \in P, m \in M, st \in ST, kw \in KW :
         /\ Len(p) <= m
         /\ engine' = "glm" /\ stream' = s /\ prompt_tokens' = p /\ max_tokens' = m
         /\ stop' = st /\ kwargs' = kw /\ gen_config' = GenerationConfig(kw, m, Len(p))
         /\ input_ids' = p /\ n_past' = 0 /\ total_len' = 0 /\ previous_text' = <<>>
         /\ output_ids' = <<>> /\ response' = Unbound /\ stop_found' = "unbound"
         /\ pc' = IF ~s THEN "generate" ELSE IF Len(p) < m THEN "decode" ELSE "final"
         /\ exit' = IF s /\ Len(p) >= m THEN "length" ELSE "none"
    /\ UNCHANGED <<steps, chunks, err>>
    /\ UNCHANGED llamaVars
    /\ UNCHANGED ctxVars

\* a chat request that leaves the sampling fields at their defaults
GlmStart ==
    /\ GlmStartWith(BOOLEAN, Prompts, 1..MaxLength, ReqStops, {DefaultSampling})
    /\ UNCHANGED auxVars

GlmIsEos(t) == t \in {GlmEos, GlmExtraEos}

\* one iteration of the while loop of create_steam_completion
GlmStep ==
    /\ pc = "decode" /\ engine = "glm"
    /\ Len(input_ids) < max_tokens
    /\ \E next_token_id \in GlmVocab :
         LET ids      == Append(output_ids, next_token_id)
             raw      == GlmDecode(ids)
             withheld == EndsWithPunct(raw)
             applied  == apply_stopping_strings(raw, <<Observation>>)
             emits    == raw # <<>> /\ ~withheld
             resp     == IF emits THEN applied[1] ELSE raw
             found    == IF emits THEN (IF applied[2] THEN "true" ELSE "false") ELSE stop_found
             input_echo_len == Len(prompt_tokens)
             chunk    == [delta |-> resp,
                          text |-> Drop(resp, Len(previous_text)),
                          finish_reason |-> IF applied[2] THEN "function_call" ELSE "null",
                          usage |-> Usage(input_echo_len, Len(ids) - input_echo_len, Len(ids))]
         IN  /\ n_past' = Processed(input_ids)
             /\ input_ids' = Append(input_ids, next_token_id)
             /\ output_ids' = ids
             /\ total_len' = Len(ids)
             /\ response' = resp
             /\ stop_found' = found
             /\ previous_text' = IF emits THEN resp ELSE previous_text
             /\ chunks' = IF emits THEN Append(chunks, chunk) ELSE chunks
             /\ steps' = steps + 1
             /\ IF raw # <<>> /\ found = "unbound"
                THEN pc' = "error" /\ err' = "UnboundLocalError" /\ exit' = "none"
                ELSE /\ err' = err
                     /\ IF raw # <<>> /\ found = "true"
                        THEN pc' = "final" /\ exit' = "stop"
                        ELSE IF GlmIsEos(next_token_id)
                        THEN pc' = "final" /\ exit' = "eos"
                        ELSE IF Len(input_ids) + 1 >= max_tokens
                        THEN pc' = "final" /\ exit' = "length"
                        ELSE pc' = "decode" /\ exit' = "none"
    /\ UNCHANGED reqVars
    /\ UNCHANGED llamaVars
    /\ UNCHANGED ctxVars
    /\ UNCHANGED auxVars

\* generate_next_token raises inside the while loop of create_steam_completion
GlmRuntimeFailure ==
    /\ pc = "decode" /\ engine = "glm"
    /\ Len(input_ids) < max_tokens
    /\ pc' = "error" /\ err' = "RuntimeError"
    /\ UNCHANGED <<steps, chunks, exit>>
    /\ UNCHANGED reqVars
    /\ UNCHANGED glmVars
    /\ UNCHANGED llamaVars
    /\ UNCHANGED ctxVars
    /\ UNCHANGED auxVars

\* the yield after the loop of create_steam_completion
GlmFinal ==
    /\ pc = "final" /\ engine = "glm" /\ stream
    /\ IF response = Unbound
       THEN pc' = "error" /\ err' = "UnboundLocalError" /\ chunks' = chunks
       ELSE /\ pc' = "done" /\ err' = err
            /\ chunks' = Append(chunks,
                   [delta |-> <<>>, text |-> response, finish_reason |-> "stop",
                    usage |-> Usage(Len(prompt_tokens), total_len - Len(prompt_tokens),
                                    total_len)])
    /\ UNCHANGED <<steps, exit>>
    /\ UNCHANGED reqVars
    /\ UNCHANGED glmVars
    /\ UNCHANGED llamaVars
    /\ UNCHANGED ctxVars
    /\ UNCHANGED auxVars

\* pipeline._sync_generate_ids: one iteration of the generate loop of the runtime
GlmSyncGenerate ==
    /\ pc = "generate" /\ engine = "glm"
    /\ IF Len(input_ids) >= max_tokens
       THEN /\ pc' = "final" /\ exit' = "length"
            /\ UNCHANGED <<steps, input_ids, n_past, output_ids>>
       ELSE \E next_token_id \in GlmVocab :
              /\ n_past' = Len(input_ids)
              /\ input_ids' = Append(input_ids, next_token_id)
              /\ output_ids' = Append(output_ids, next_token_id)
              /\ steps' = steps + 1
              /\ IF GlmIsEos(next_token_id)
                 THEN pc' = "final" /\ exit' = "eos"
                 ELSE IF Len(input_ids) + 1 >= max_tokens
                 THEN pc' = "final" /\ exit' = "length"
                 ELSE pc' = "generate" /\ exit' = "none"
    /\ UNCHANGED <<chunks, err, total_len, previous_text, response, stop_found>>
    /\ UNCHANGED reqVars
    /\ UNCHANGED llamaVars
    /\ UNCHANGED ctxVars
    /\ UNCHANGED auxVars

\* create_completion: the record built from the generated ids
GlmCreateCompletion ==
    /\ pc = "final" /\ engine = "glm" /\ ~stream
    /\ LET input_echo_len == Len(prompt_tokens)
           tl == Len(output_ids) + input_echo_len
       IN  /\ total_len' = tl
           /\ response' = GlmDecode(output_ids)
           /\ chunks' = Append(chunks,
                  [delta |-> GlmDecode(output_ids), text |-> GlmDecode(output_ids),
                   finish_reason |-> "stop",
                   usage |-> Usage(input_echo_len, tl - input_echo_len, tl)])
    /\ pc' = "done"
    /\ UNCHANGED <<steps, err, exit, input_ids, n_past, output_ids, previous_text, stop_found>>
    /\ UNCHANGED reqVars
    /\ UNCHANGED llamaVars
    /\ UNCHANGED ctxVars
    /\ UNCHANGED auxVars

\* _create_chat_completion_stream: the chat chunks made from the outputs of
\* create_steam_completion, from the i-th output on
RECURSIVE ChatChunksFrom(_, _)
ChatChunksFrom(outs, i) ==
    IF i > Len(outs) THEN <<>>
    ELSE (IF i = 1
          THEN <<[role |-> "assistant", has_content |-> TRUE, content |-> <<>>,
                  finish_reason |-> "null"]>>
          ELSE <<>>)
         \o <<[role |-> "none",
               has_content |-> (outs[i].finish_reason = "null"),
               content |-> IF outs[i].finish_reason = "null" THEN outs[i].text ELSE <<>>,
               finish_reason |-> outs[i].finish_reason]>>
         \o ChatChunksFrom(outs, i + 1)

ChatCompletionStream(outs) == ChatChunksFrom(outs, 1)

(***************************************************************************)
(* generate_stream_chatglm_v3_cpp                                          *)
(***************************************************************************)
V3CppStart ==
    /\ pc = "idle"
    /\ \E p \in Prompts, m \in 1..MaxLength :
         /\ engine' = "glm_v3_cpp" /\ stream' = TRUE /\ prompt_tokens' = p
         /\ max_tokens' = m /\ stop' = <<>>
         /\ input_ids' = p /\ n_past' = 0 /\ output_ids' = <<>> /\ response' = <<>>
         /\ total_len' = 0 /\ previous_text' = <<>> /\ stop_found' = "unbound"
         /\ pc' = IF Len(p) < m THEN "decode" ELSE "final"
         /\ exit' = IF Len(p) < m THEN "none" ELSE "length"
    /\ UNCHANGED <<steps, chunks, err, kwargs, gen_config>>
    /\ UNCHANGED llamaVars
    /\ UNCHANGED ctxVars
    /\ UNCHANGED auxVars

\* one iteration of the while loop; total_len stands for response_len
V3CppStep ==
    /\ pc = "decode" /\ engine = "glm_v3_cpp"
    /\ Len(input_ids) < max_tokens
    /\ \E next_token_id \in GlmVocab :
         LET ids     == Append(output_ids, next_token_id)
             raw     == GlmDecode(ids)
             emits   == raw # <<>> /\ raw[Len(raw)] # ReplacementChar
             applied == apply_stopping_strings(raw, <<Observation>>)
             resp    == IF emits THEN applied[1] ELSE raw
             found   == emits /\ applied[2]
             chunk   == [text |-> resp,
                         finish_reason |-> IF found THEN "function_call" ELSE "null",
                         usage |-> Usage(Len(prompt_tokens), Len(ids),
                                         Len(ids) + Len(prompt_tokens))]
         IN  /\ n_past' = Processed(input_ids)
             /\ input_ids' = Append(input_ids, next_token_id)
             /\ output_ids' = ids
             /\ total_len' = Len(ids)
             /\ response' = resp
             /\ stop_found' = IF emits THEN (IF found THEN "true" ELSE "false") ELSE stop_found
             /\ chunks' = IF emits THEN Append(chunks, chunk) ELSE chunks
             /\ steps' = steps + 1
             /\ IF found
                THEN pc' = "final" /\ exit' = "stop"
                ELSE IF next_token_id = GlmEos
                THEN pc' = "final" /\ exit' = "eos"
                ELSE IF Len(input_ids) + 1 >= max_tokens
                THEN pc' = "final" /\ exit' = "length"
                ELSE pc' = "decode" /\ exit' = "none"
    /\ UNCHANGED <<err, previous_text>>
    /\ UNCHANGED reqVars
    /\ UNCHANGED llamaVars
    /\ UNCHANGED ctxVars
    /\ UNCHANGED auxVars

\* the yield after the loop
V3CppFinal ==
    /\ pc = "final" /\ engine = "glm_v3_cpp"
    /\ chunks' = Append(chunks,
           [text |-> response, finish_reason |-> "stop",
            usage |-> Usage(Len(prompt_tokens), total_len, total_len + Len(prompt_tokens))])
    /\ pc' = "done"
    /\ UNCHANGED <<steps, err, exit>>
    /\ UNCHANGED reqVars
    /\ UNCHANGED glmVars
    /\ UNCHANGED llamaVars
    /\ UNCHANGED ctxVars
    /\ UNCHANGED auxVars

(***************************************************************************)
(* Llama (llama-cpp-python)                                                *)
(***************************************************************************)
LlamaEos == 2

\* the bytes of each token: "a", "S", "T", "ST", the lead byte of U+20AC,
\* its two continuation bytes, the continuation bytes followed by "S"
LlamaPiece == (LlamaEos :> <<>>) @@ (21 :> <<97>>) @@ (22 :> <<83>>) @@ (23 :> <<84>>)
              @@ (24 :> <<83, 84>>) @@ (25 :> <<226>>) @@ (26 :> <<130, 172>>)
              @@ (27 :> <<130, 172, 83>>)

LlamaVocab == DOMAIN LlamaPiece

\* the stop lists a caller configures: none, ["ST"], ["T", "S"], ["S", "ST"]
StopChoices == {<<>>, << <<83, 84>> >>, << <<84>>, <<83>> >>, << <<83>>, <<83, 84>> >>}

RECURSIVE detokenize(_)
detokenize(tokens) == IF tokens = <<>> THEN <<>>
                      ELSE LlamaPiece[Head(tokens)] \o detokenize(Tail(tokens))

\* lines 859-864: the last assignment of the scan over all_text[-3:] decides
MultibyteScan(all_text, fix) ==
    LET last3 == LastN(all_text, 3)
        hits  == {h \in (1..Len(last3)) \X {2, 3, 4} :
                     LET k == 3 - (h[1] - 1)
                         pattern == IF h[2] = 2 THEN 192 ELSE IF h[2] = 3 THEN 224 ELSE 240
                     IN  h[2] > k /\ BitAnd(pattern, last3[h[1]]) = pattern}
        final == CHOOSE h \in hits : \A g \in hits :
                     g[1] < h[1] \/ (g[1] = h[1] /\ g[2] <= h[2])
    IN  IF hits = {} THEN fix ELSE final[2] - (3 - (final[1] - 1))

\* [s for s in stop_sequences if s in all_text]
RECURSIVE AnyStop(_, _)
AnyStop(stop_sequences, all_text) ==
    IF stop_sequences = <<>> THEN <<>>
    ELSE (IF Contains(all_text, Head(stop_sequences)) THEN <<Head(stop_sequences)>> ELSE <<>>)
         \o AnyStop(Tail(stop_sequences), all_text)

\* lines 886-892: the longest tail of remaining_text that is a prefix of a stop sequence
FirstStopPosition(remaining_text, stop_sequences) ==
    LET m == {i \in 1..Len(remaining_text) :
                 \E k \in 1..Len(stop_sequences) :
                     /\ i <= Len(stop_sequences[k])
                     /\ EndsWith(remaining_text, Take(stop_sequences[k], i))}
    IN  IF m = {} THEN 0 ELSE SetMax(m)

\* lines 960-996: the fragments yielded and the number of tokens returned
RECURSIVE StreamEmit(_, _, _)
StreamEmit(remaining_tokens, token_end_position, limit) ==
    LET ok == {i \in 1..Len(remaining_tokens) :
                  Utf8Valid(detokenize(Take(remaining_tokens, i)))}
    IN  IF ok = {} THEN [frags |-> <<>>, n |-> 0]
        ELSE LET i  == SetMin(ok)
                 bs == detokenize(Take(remaining_tokens, i))
             IN  IF token_end_position + Len(bs) > limit THEN [frags |-> <<>>, n |-> 0]
                 ELSE LET r == StreamEmit(Drop(remaining_tokens, i),
                                          token_end_position + Len(bs), limit)
                      IN  [frags |-> <<bs>> \o r.frags, n |-> i + r.n]

\* lines 1022-1096: the fragments yielded after the loop
RECURSIVE FlushEmit(_, _, _)
FlushEmit(remaining_tokens, token_end_position, end) ==
    IF remaining_tokens = <<>> THEN <<>>
    ELSE LET last_text == detokenize(<<Head(remaining_tokens)>>)
             t == token_end_position + Len(last_text)
         IN  IF t >= end
             THEN <<Utf8Ignore(Take(last_text, Len(last_text) - (t - end)))>>
             ELSE <<Utf8Ignore(last_text)>> \o FlushEmit(Tail(remaining_tokens), t, end)

RECURSIVE ContentChunks(_)
ContentChunks(frags) ==
    IF frags = <<>> THEN <<>>
    ELSE <<[text |-> Head(frags), finish_reason |-> "null"]>> \o ContentChunks(Tail(frags))

\* lines 788-797
EffectiveMaxTokens(m, p) ==
    LET unlimited == IF m <= 0 THEN NCtx - Len(p) ELSE m
    IN  IF unlimited + Len(p) < NCtx THEN unlimited ELSE NCtx - Len(p)

\* a generate that never keeps a part of the live context
LongestPrefixNone(a, b) == 0

\* a prefix length taken from the lengths alone
LongestPrefixUnchecked(a, b) == Min(Len(a), Len(b))

\* generate, lines 584-599: the part of the live context that is kept
LongestPrefix(a, b) ==
    LET m == {n \in 0..Min(Len(a), Len(b)) : \A i \in 1..n : a[i] = b[i]}
    IN  SetMax(m)

\* eval, line 427: input_ids[n_past : n_past + n_tokens] = batch
EvalWrite(arr, n, batch) == Take(arr, n) \o batch \o Drop(arr, n + Len(batch))

\* Llama(n_batch = ...): the size of the batches eval hands to the runtime
n_batch == 2

\* the loop of eval from offset i of tokens: each batch is decoded at the
\* cursor, written to input_ids, and the cursor advances by its length
RECURSIVE EvalFrom(_, _, _, _)
EvalFrom(ctx, tokens, i, nb) ==
    IF i >= Len(tokens) THEN ctx
    ELSE LET batch  == SubSeq(tokens, i + 1, Min(Len(tokens), i + nb))
             past   == ctx.n_tokens
         IN  EvalFrom([input_ids |-> EvalWrite(ctx.input_ids, past, batch),
                       n_tokens  |-> past + Len(batch),
                       kv        |-> ctx.kv \o batch],
                      tokens, i + nb, nb)

\* an eval that leaves the runtime's entries beyond the cursor in place
eval_keeps_tail(ctx, tokens, nb) == EvalFrom(ctx, tokens, 0, nb)

\* Llama.eval: kv_cache_seq_rm(-1, n_tokens, -1) drops what the runtime holds
\* beyond the cursor, then the batches are evaluated
eval(ctx, tokens, nb) == EvalFrom([ctx EXCEPT !.kv = Take(ctx.kv, ctx.n_tokens)], tokens, 0, nb)

\* the live context of the Llama object
LiveContext == [input_ids |-> self_input_ids, n_tokens |-> n_tokens, kv |-> kv]

\* the model file: the token with the highest logit in the row computed for
\* a history; the row depends on the history and on the weights only
RECURSIVE WeightedSum(_)
WeightedSum(h) ==
    IF h = <<>> THEN 0 ELSE Len(h) * h[Len(h)] + WeightedSum(Take(h, Len(h) - 1))

Weights == {0, 3}

Argmax(w, row) ==
    LET order == <<LlamaEos, 21, 22, 23, 24, 25, 26, 27>>
    IN  order[((w + WeightedSum(row)) % Len(order)) + 1]

\* the candidates in descending order of their logits, as sample_softmax
\* leaves them: the first one is the token with the highest logit
Sorted(w, row) ==
    LET order == <<LlamaEos, 21, 22, 23, 24, 25, 26, 27>>
    IN  [r \in 1..Len(order) |-> order[((w + WeightedSum(row) + r - 1) % Len(order)) + 1]]

\* the rank of a token among the candidates; its surprise is taken as its
\* rank (in units, MirostatTau and mu are in tenths)
Rank(w, row, token) == CHOOSE r \in 1..8 : Sorted(w, row)[r] = token

\* sample(mirostat_tau = 5.0, mirostat_eta = 0.1), in tenths
MirostatTau == 50

MirostatEta == 1

\* the mu every mirostat call of sample passes to the runtime: 2.0 * mirostat_tau
MirostatSeed == 2 * MirostatTau

\* sample_token_mirostat(_v2): the candidates whose surprise is above mu are
\* dropped, one of the others is drawn
MirostatCandidates(m, w, row) ==
    {Sorted(w, row)[r] : r \in {q \in 1..8 : q = 1 \/ q * 10 <= m}}

\* and mu moves by eta * (tau - observed surprise)
MirostatUpdate(m, r) == m - (MirostatEta * (r * 10 - MirostatTau)) \div 10

\* sample uses the mirostat branch
UsesMirostat(t, mode) == t > 0 /\ mode \in {1, 2}

\* a sampler that looks at the mirostat mode before the temperature
SampleSetMirostatFirst(t, mode, w, row) ==
    IF mode \in {1, 2} THEN MirostatCandidates(MirostatSeed, w, row)
    ELSE IF t = 0 THEN {Argmax(w, row)}
    ELSE LlamaVocab

\* Llama.sample: with temp < 0 the first candidate after sample_softmax, with
\* temp == 0 the greedy token, in mirostat mode a draw of the mirostat
\* sampler seeded with 2 * tau, otherwise a draw from the candidates
SampleSet(t, mode, w, row) ==
    IF t < 0 THEN {Sorted(w, row)[1]}
    ELSE IF t = 0 THEN {Argmax(w, row)}
    ELSE IF UsesMirostat(t, mode) THEN MirostatCandidates(MirostatSeed, w, row)
    ELSE LlamaVocab

\* eval fails for a batch that does not fit
EvalAlwaysFits(n, batch) == TRUE

\* eval: the batch fits into the context window; otherwise the decode call
\* fails, and neither the batch nor its logits can be assigned to the rows
\* of input_ids and scores past the end, so n_tokens is not advanced
EvalFits(n, batch) == n + Len(batch) <= NCtx

\* a save_state that hands the live arrays to the cache
save_state_keeps_arrays == FALSE

\* save_state passes self.scores.copy() and self.input_ids.copy()
save_state_copies == TRUE

\* load_state assigns state.scores.copy() and state.input_ids.copy()
load_state_copies == TRUE

\* Llama.save_state: a copy of the scores, of the whole input_ids array and
\* of n_tokens, with the state blob of the runtime and its size
save_state ==
    [scores |-> scores, input_ids |-> self_input_ids, n_tokens |-> n_tokens,
     llama_state |-> kv, llama_state_size |-> Len(kv), shared |-> ~save_state_copies]

\* a write to the live arrays is seen through every state that shares them
WriteThrough(c, ids, sc) ==
    [i \in 1..Len(c) |->
        IF c[i].state.shared
        THEN [c[i] EXCEPT !.state.input_ids = ids, !.state.scores = sc]
        ELSE c[i]]

\* load_state gives the live context new arrays: no other state shares
\* them, and the loaded one does only if it was not copied
Relink(c, hit) ==
    [i \in 1..Len(c) |->
        [c[i] EXCEPT !.state.shared = (i = hit /\ ~load_state_copies)]]

\* cache[prompt_tokens]: the entries whose key has the longest common prefix
\* with the prompt; none when no key shares a prefix with it (KeyError)
CacheHits(c, p) ==
    LET best == SetMax({0} \cup {LongestPrefix(c[i].key, p) : i \in 1..Len(c)})
    IN  IF best = 0 THEN {} ELSE {i \in 1..Len(c) : LongestPrefix(c[i].key, p) = best}

CacheCapacity == 2

\* cache[key] = state: the entry replaces one with the same key, and the
\* oldest entry is evicted when the capacity is exceeded
CacheStore(c, key, state) ==
    LET kept == SelectSeq(c, LAMBDA e : e.key # key)
        full == Append(kept, [key |-> key, state |-> state])
    IN  IF Len(full) > CacheCapacity THEN Tail(full) ELSE full

MaxRequests == 4

\* a comparison with the whole prompt
ReusableWhole(tokens) == tokens

\* generate compares the live history with tokens[:-1]
Reusable(tokens) == Take(tokens, Len(tokens) - 1)

\* the error load_state ends with when the blob cannot be set
LoadStateError == "RuntimeError: Failed to set llama state data"

\* _create_completion up to its loop, and generate up to its loop: the
\* context-window check, the cache lookup with load_state, the reuse of the
\* live context
LlamaStartWith(again, S, P, M, ST, T, MM) ==
    /\ \/ pc = "idle"
       \/ again /\ engine = "llama" /\ pc \in {"done", "error", "cancelled"}
                /\ served < MaxRequests
    /\ \E s \in S, p \in P, m \in M, st \in ST, t \in T, mm \in MM :
         /\ engine' = "llama" /\ stream' = s /\ prompt_tokens' = p /\ stop' = st
         /\ temperature' = t /\ mirostat_mode' = mm /\ mu_seed' = 0 /\ mu' = 0
         /\ completion_tokens' = <<>> /\ text' = <<>> /\ returned_tokens' = 0
         /\ multibyte_fix' = 0
         /\ IF Len(p) >= NCtx
            THEN /\ pc' = "error" /\ err' = "ValueError"
                 /\ lookup' = NoLookup
                 /\ UNCHANGED <<max_tokens, finish_reason, n_tokens, self_input_ids,
                                gen_tokens, kv, scores, cache>>
            ELSE \E hit \in (IF has_cache /\ CacheHits(cache, p) # {}
                             THEN CacheHits(cache, p) ELSE {0}) :
              LET cache_item == cache[hit].state
                  loads == /\ hit # 0
                           /\ LongestPrefix(cache_item.input_ids, p)
                                > LongestPrefix(Take(self_input_ids, n_tokens), p)
                  ids   == IF loads THEN cache_item.input_ids ELSE self_input_ids
                  n     == IF loads THEN cache_item.n_tokens ELSE n_tokens
                  longest_prefix ==
                           IF n > 0 THEN LongestPrefix(Take(ids, n), Reusable(p))
                           ELSE 0
              IN  /\ self_input_ids' = ids
                  /\ scores' = IF loads THEN cache_item.scores ELSE scores
                  /\ lookup' = [hit |-> hit, loads |-> loads]
                  /\ cache' = IF loads THEN Relink(cache, hit) ELSE cache
                  /\ max_tokens' = EffectiveMaxTokens(m, p)
                  /\ finish_reason' = "length"
                  /\ IF loads /\ cache[hit].key \in corrupted
                     THEN /\ pc' = "error" /\ err' = LoadStateError
                          /\ n_tokens' = n
                          /\ kv' \in {kv, cache_item.llama_state}
                          /\ gen_tokens' = <<>>
                     ELSE /\ pc' = "decode" /\ err' = "none"
                          /\ kv' = IF loads THEN cache_item.llama_state ELSE kv
                          /\ gen_tokens' = Drop(p, longest_prefix)
                          /\ n_tokens' = longest_prefix
    /\ steps' = 0 /\ chunks' = <<>> /\ exit' = "none" /\ yield_base' = 0
    /\ served' = served + 1
    /\ UNCHANGED <<kwargs, gen_config, weights, has_cache, corrupted, cold>>
    /\ UNCHANGED glmVars
    /\ UNCHANGED other
    /\ UNCHANGED penaltyVars
    /\ UNCHANGED routeVars

\* a completion request on a fresh Llama object without a cache
LlamaStart == LlamaStartWith(FALSE, BOOLEAN, Prompts, 0..MaxLength, StopChoices, {1}, {0})

\* one iteration of `for token in self.generate(...)`: generate evaluates the
\* pending tokens and samples, then the body of the loop runs
LlamaStep ==
    /\ pc = "decode" /\ engine = "llama"
    /\ IF ~EvalFits(n_tokens, gen_tokens)
       THEN /\ pc' = "error" /\ err' = "RuntimeError"
            /\ kv' = Take(kv, n_tokens)
            /\ UNCHANGED <<steps, chunks, exit, scores, yield_base, cache, mu_seed, mu>>
            /\ UNCHANGED llamaVars
       ELSE \E token \in SampleSet(temperature, mirostat_mode, weights,
                                   Take(kv, n_tokens) \o gen_tokens) :
         LET ct        == Append(completion_tokens, token)
             evaluated == eval(LiveContext, gen_tokens, n_batch)
             row       == evaluated.kv
             mirostat  == UsesMirostat(temperature, mirostat_mode)
             all_text  == detokenize(ct)
             fix       == MultibyteScan(all_text, multibyte_fix)
             any_stop  == AnyStop(stop, all_text)
             remaining_tokens == Drop(ct, returned_tokens)
             remaining_text   == detokenize(remaining_tokens)
             emitted   == IF stream
                          THEN StreamEmit(remaining_tokens, 0,
                                   Len(remaining_text) - FirstStopPosition(remaining_text, stop))
                          ELSE [frags |-> <<>>, n |-> 0]
         IN  /\ n_tokens' = evaluated.n_tokens
             /\ self_input_ids' = evaluated.input_ids
             /\ kv' = row
             /\ scores' = row
             /\ cache' = WriteThrough(cache, evaluated.input_ids, row)
             /\ mu_seed' = IF mirostat THEN MirostatSeed ELSE mu_seed
             /\ mu' = IF mirostat
                      THEN MirostatUpdate(MirostatSeed, Rank(weights, row, token))
                      ELSE mu
             /\ yield_base' = Len(chunks)
             /\ gen_tokens' = <<token>>
             /\ steps' = steps + 1
             /\ err' = err
             /\ IF token = LlamaEos
                THEN /\ text' = detokenize(completion_tokens)
                     /\ finish_reason' = "stop"
                     /\ pc' = "flush" /\ exit' = "eos"
                     /\ UNCHANGED <<completion_tokens, multibyte_fix, returned_tokens, chunks>>
                ELSE /\ completion_tokens' = ct
                     /\ IF fix > 0
                        THEN /\ multibyte_fix' = fix - 1
                             /\ pc' = "decode"
                             /\ UNCHANGED <<text, finish_reason, returned_tokens, chunks, exit>>
                        ELSE /\ multibyte_fix' = fix
                             /\ IF any_stop # <<>>
                                THEN /\ text' = Take(all_text, Find(all_text, any_stop[1]))
                                     /\ finish_reason' = "stop"
                                     /\ pc' = "flush" /\ exit' = "stop"
                                     /\ UNCHANGED <<returned_tokens, chunks>>
                                ELSE /\ returned_tokens' = returned_tokens + emitted.n
                                     /\ chunks' = chunks \o ContentChunks(emitted.frags)
                                     /\ IF Len(ct) >= max_tokens
                                        THEN /\ text' = all_text
                                             /\ finish_reason' = "length"
                                             /\ pc' = "flush" /\ exit' = "length"
                                        ELSE /\ pc' = "decode"
                                             /\ UNCHANGED <<text, finish_reason, exit>>
    /\ UNCHANGED <<temperature, weights, has_cache, corrupted, served, cold>>
    /\ UNCHANGED reqVars
    /\ UNCHANGED glmVars
    /\ UNCHANGED <<lookup, other, mirostat_mode>>
    /\ UNCHANGED penaltyVars
    /\ UNCHANGED routeVars

\* a key that leaves the completion out
CacheKeyPromptOnly == prompt_tokens

\* the key a finished generation is stored under
CacheKey == prompt_tokens \o completion_tokens

ThisRun == [prompt_tokens |-> prompt_tokens, max_tokens |-> max_tokens, stop |-> stop,
            temperature |-> temperature, completion_tokens |-> completion_tokens,
            text |-> text]

\* _create_completion after its loop: the remaining fragments and the final
\* chunk of a stream, or the cache store and the single record
LlamaFlush ==
    /\ pc = "flush" /\ engine = "llama"
    /\ LET remaining_tokens == Drop(completion_tokens, returned_tokens)
           all_text == detokenize(remaining_tokens)
           any_stop == AnyStop(stop, all_text)
           end      == IF any_stop # <<>>
                       THEN SetMin({Find(all_text, any_stop[k]) : k \in 1..Len(any_stop)})
                       ELSE Len(all_text)
           frags    == FlushEmit(remaining_tokens, 0, end)
       IN  IF stream
           THEN /\ returned_tokens' = returned_tokens + Len(frags)
                /\ chunks' = chunks \o ContentChunks(frags)
                                \o <<[text |-> <<>>, finish_reason |-> finish_reason]>>
                /\ pc' = IF has_cache THEN "save" ELSE "done"
                /\ UNCHANGED <<cache, corrupted>>
           ELSE /\ returned_tokens' = returned_tokens
                /\ chunks' = Append(chunks,
                       [text |-> Utf8Ignore(text), finish_reason |-> finish_reason,
                        usage |-> Usage(Len(prompt_tokens), Len(completion_tokens),
                                        Len(prompt_tokens) + Len(completion_tokens))])
                /\ pc' = "done"
                /\ cache' = IF has_cache THEN CacheStore(cache, CacheKey, save_state)
                            ELSE cache
                /\ corrupted' = IF has_cache THEN corrupted \ {CacheKey} ELSE corrupted
    /\ yield_base' = Len(chunks)
    /\ cold' = IF served = 1 THEN ThisRun ELSE cold
    /\ UNCHANGED <<steps, err, exit, completion_tokens, text, finish_reason, multibyte_fix,
                   n_tokens, self_input_ids, gen_tokens>>
    /\ UNCHANGED <<temperature, weights, kv, scores, has_cache, served>>
    /\ UNCHANGED reqVars
    /\ UNCHANGED glmVars
    /\ UNCHANGED auxVars

\* the code after the final chunk of a stream, which runs when the consumer
\* asks for the next chunk: the cache store
LlamaSave ==
    /\ pc = "save" /\ engine = "llama"
    /\ cache' = CacheStore(cache, CacheKey, save_state)
    /\ corrupted' = corrupted \ {CacheKey}
    /\ pc' = "done"
    /\ UNCHANGED <<steps, chunks, err, exit>>
    /\ UNCHANGED llamaVars
    /\ UNCHANGED <<temperature, weights, kv, scores, has_cache, yield_base, served, cold>>
    /\ UNCHANGED reqVars
    /\ UNCHANGED glmVars
    /\ UNCHANGED auxVars

\* a generator that stores its state when its stream is closed
StreamClosedStoresState ==
    /\ engine = "llama" /\ stream /\ pc \in {"decode", "flush", "save"}
    /\ \E received \in (yield_base + 1)..Len(chunks) :
         chunks' = Take(chunks, received)
    /\ pc' = "cancelled"
    /\ cache' = CacheStore(cache, CacheKey, save_state)
    /\ UNCHANGED <<steps, err, exit>>
    /\ UNCHANGED llamaVars
    /\ UNCHANGED <<temperature, weights, kv, scores, has_cache, corrupted, yield_base, served,
                   cold>>
    /\ UNCHANGED reqVars
    /\ UNCHANGED glmVars
    /\ UNCHANGED auxVars

\* the consumer closes the chunk stream while the generator is suspended at
\* one of the yields of its last step: the generator ends there
StreamClosed ==
    /\ engine = "llama" /\ stream /\ pc \in {"decode", "flush", "save"}
    /\ \E received \in (yield_base + 1)..Len(chunks) :
         chunks' = Take(chunks, received)
    /\ pc' = "cancelled"
    /\ UNCHANGED <<steps, err, exit>>
    /\ UNCHANGED llamaVars
    /\ UNCHANGED ctxVars
    /\ UNCHANGED reqVars
    /\ UNCHANGED glmVars
    /\ UNCHANGED auxVars

\* the stored blob of an entry is damaged between two requests, so that it
\* no longer matches its declared size (one damaged entry at a time)
BlobDamaged ==
    /\ engine = "llama" /\ pc \in {"done", "error", "cancelled"}
    /\ \E i \in 1..Len(cache) :
         /\ corrupted = {}
         /\ corrupted' = corrupted \cup {cache[i].key}
    /\ UNCHANGED <<pc, steps, chunks, err, exit>>
    /\ UNCHANGED llamaVars
    /\ UNCHANGED <<temperature, weights, kv, scores, has_cache, cache, yield_base, served,
                   cold>>
    /\ UNCHANGED reqVars
    /\ UNCHANGED glmVars
    /\ UNCHANGED auxVars

\* the model runtime fails in a decode call (llama_decode returns an error)
LlamaRuntimeFailure ==
    /\ pc = "decode" /\ engine = "llama"
    /\ pc' = "error" /\ err' = "RuntimeError"
    /\ kv' = Take(kv, n_tokens)
    /\ UNCHANGED <<steps, chunks, exit>>
    /\ UNCHANGED llamaVars
    /\ UNCHANGED <<temperature, weights, scores, has_cache, cache, corrupted, yield_base,
                   served, cold>>
    /\ UNCHANGED reqVars
    /\ UNCHANGED glmVars
    /\ UNCHANGED auxVars

Next ==
    \/ GlmStart \/ GlmStep \/ GlmRuntimeFailure \/ GlmFinal
    \/ GlmSyncGenerate \/ GlmCreateCompletion
    \/ V3CppStart \/ V3CppStep \/ V3CppFinal
    \/ LlamaStart \/ LlamaStep \/ LlamaRuntimeFailure \/ LlamaFlush

Spec == Init /\ [][Next]_vars

(***************************************************************************)
(* A Llama object with a state cache that serves several requests, one     *)
(* after the other                                                         *)
(***************************************************************************)
\* set_cache was called after construction; the model file fixes the weights
CacheInit == InitEngines /\ has_cache = TRUE /\ weights \in Weights

\* the prompts of the requests: a short one, one that extends it, one that
\* shares no prefix with them, one that fills the context window
CachePrompts ==
    {Take(<<1, 2, 3, 4, 5, 6, 7, 8>>, MaxPromptLen - 1),
     Take(<<1, 2, 3, 4, 5, 6, 7, 8>>, MaxPromptLen + 1),
     Take(<<1, 2, 3, 4, 5, 6, 7, 8>>, NCtx), <<7, 2>>}

\* a completion request with greedy sampling (temperature = 0), max_tokens = 2
\* and no stop string
CacheRequest == LlamaStartWith(TRUE, BOOLEAN, CachePrompts, {2}, {<<>>}, {0}, {0})

CacheNext ==
    \/ CacheRequest \/ LlamaStep \/ LlamaRuntimeFailure \/ LlamaFlush \/ LlamaSave
    \/ StreamClosed \/ BlobDamaged

CacheSpec == CacheInit /\ [][CacheNext]_vars

\* greedy requests that may set the stop strings "S", "T" and "a", so that
\* generations end by eos, by stop string and by length
StoreRequest ==
    LlamaStartWith(TRUE, BOOLEAN, CachePrompts, {2},
                   {<<>>, << <<83>>, <<84>>, <<97>> >>}, {0}, {0})

StoreNext == StoreRequest \/ LlamaStep \/ LlamaFlush \/ LlamaSave

StoreSpec == CacheInit /\ [][StoreNext]_vars

(***************************************************************************)
(* Requests whose prompts extend one another, on a Llama object with a     *)
(* state cache: the arrays of a saved state keep what an earlier, longer   *)
(* generation left behind the cursor                                       *)
(***************************************************************************)
PrefixPrompts ==
    {Take(<<1, 2, 3, 4, 5, 6, 7, 8>>, n) : n \in (MaxPromptLen - 1)..(MaxPromptLen + 1)}

PrefixRequest == LlamaStartWith(TRUE, BOOLEAN, PrefixPrompts, {1, 2}, {<<>>}, {0}, {0})

PrefixNext == PrefixRequest \/ LlamaStep \/ LlamaFlush \/ LlamaSave \/ StreamClosed

PrefixSpec == CacheInit /\ [][PrefixNext]_vars

(***************************************************************************)
(* Completion requests on a Llama object that set the temperature and the  *)
(* mirostat mode                                                           *)
(***************************************************************************)
SamplerInit == InitEngines /\ has_cache = FALSE /\ weights \in Weights

\* not streaming, temperature -1 or 1, mirostat_mode 0, 1 or 2, no stop string
SamplerRequest ==
    LlamaStartWith(FALSE, {FALSE}, Prompts, 1..MaxLength, {<<>>}, {-1, 1}, {0, 1, 2})

SamplerNext == SamplerRequest \/ LlamaStep \/ LlamaFlush

SamplerSpec == SamplerInit /\ [][SamplerNext]_vars

\* greedy requests (temperature 0) with every mirostat mode
GreedyRequest ==
    LlamaStartWith(FALSE, BOOLEAN, Prompts, 1..MaxLength, {<<>>}, {0}, {0, 1, 2})

GreedyNext == GreedyRequest \/ LlamaStep \/ LlamaFlush

GreedySpec == SamplerInit /\ [][GreedyNext]_vars

(***************************************************************************)
(* The penalty stage of Llama.sample as a function of the logits row, the  *)
(* recent tokens and penalize_nl                                           *)
(***************************************************************************)
NVocab == 3

\* self._token_nl, a token id (ids count from 0)
token_nl == 1

LogitValues == {-1, 0, 2}

\* _candidates.copy_logits: candidate i holds token id i and its logit
copy_logits(l) == [i \in 1..Len(l) |-> [id |-> i - 1, logit |-> l[i]]]

\* sample_repetition_penalties: the logit of every recent token is lowered,
\* the candidates keep their places
sample_repetition_penalties(c, last) ==
    [i \in DOMAIN c |-> IF c[i].id \in last THEN [c[i] EXCEPT !.logit = @ - 1] ELSE c[i]]

\* the newline logit is never put back
NeverRestoresNewline(flag) == FALSE

\* if not penalize_nl: candidates.data[token_nl].logit = nl_logit
RestoresNewline(flag) == ~flag

\* sample is about to run its penalty stage
PenaltyInit ==
    /\ InitObjects /\ has_cache = FALSE /\ weights = 0
    /\ pc = "call" /\ stop = <<>> /\ response = Unbound /\ stop_found = "unbound"
    /\ logits \in [1..NVocab -> LogitValues]
    /\ last_tokens \in SUBSET (0..(NVocab - 1))

\* nl_logit = logits[token_nl]; copy_logits; sample_repetition_penalties;
\* the newline logit is put back unless penalize_nl
PenaltyStage ==
    /\ pc = "call" /\ logits # <<>>
    /\ \E flag \in BOOLEAN :
         LET nl_logit  == logits[token_nl + 1]
             penalized == sample_repetition_penalties(copy_logits(logits), last_tokens)
         IN  /\ penalize_nl' = flag
             /\ candidates' = IF RestoresNewline(flag)
                              THEN [penalized EXCEPT ![token_nl + 1].logit = nl_logit]
                              ELSE penalized
    /\ pc' = "returned"
    /\ UNCHANGED <<logits, last_tokens>>
    /\ UNCHANGED <<steps, chunks, err, exit>>
    /\ UNCHANGED reqVars
    /\ UNCHANGED glmVars
    /\ UNCHANGED llamaVars
    /\ UNCHANGED ctxVars
    /\ UNCHANGED <<lookup, other, mirostat_mode, mu_seed, mu>>
    /\ UNCHANGED routeVars

PenaltySpec == PenaltyInit /\ [][PenaltyStage]_vars

(***************************************************************************)
(* apply_stopping_strings as a function of its arguments: replies over the *)
(* letters a, b, c and lists of stop strings that overlap one another      *)
(***************************************************************************)
MaxReplyLen == 3

MaxStops == 2

Letters == {97, 98, 99}

RECURSIVE Strings(_)
Strings(n) ==
    IF n = 0 THEN {<<>>}
    ELSE Strings(n - 1) \cup {Append(t, c) : t \in Strings(n - 1), c \in Letters}

\* "abc", "bca", "ca", "b"
StopStrings == {<<97, 98, 99>>, <<98, 99, 97>>, <<99, 97>>, <<98>>}

RECURSIVE StopLists(_)
StopLists(n) ==
    IF n = 0 THEN {<<>>}
    ELSE StopLists(n - 1) \cup {Append(l, t) : l \in StopLists(n - 1), t \in StopStrings}

\* a caller is about to call apply_stopping_strings(response, stop)
StopInit ==
    /\ InitObjects /\ has_cache = FALSE /\ weights = 0
    /\ pc = "call" /\ stop_found = "unbound"
    /\ response \in Strings(MaxReplyLen) /\ stop \in StopLists(MaxStops)
    /\ logits = <<>> /\ last_tokens = {}

\* response, stop_found = apply_stopping_strings(response, stop)
StopCall ==
    /\ pc = "call"
    /\ LET applied == apply_stopping_strings(response, stop)
       IN  /\ response' = applied[1]
           /\ stop_found' = IF applied[2] THEN "true" ELSE "false"
    /\ pc' = "returned"
    /\ UNCHANGED <<engine, stream, prompt_tokens, max_tokens, stop, kwargs, gen_config,
                   steps, chunks, err, exit,
                   input_ids, n_past, output_ids, total_len, previous_text>>
    /\ UNCHANGED llamaVars
    /\ UNCHANGED ctxVars
    /\ UNCHANGED auxVars

StopNext == StopCall

StopSpec == StopInit /\ [][StopNext]_vars

(***************************************************************************)
(* Chat requests of the chatglm.cpp engine that set their sampling fields  *)
(***************************************************************************)
SamplingRequest ==
    /\ GlmStartWith(BOOLEAN, {<<1>>, <<1, 2>>}, 2..MaxLength, {<<>>}, SamplingChoices)
    /\ UNCHANGED auxVars

SamplingNext ==
    \/ SamplingRequest \/ GlmStep \/ GlmRuntimeFailure \/ GlmFinal
    \/ GlmSyncGenerate \/ GlmCreateCompletion

SamplingSpec == Init /\ [][SamplingNext]_vars

(***************************************************************************)
(* Two generations in flight on one Llama object: the route hands every    *)
(* request to a worker thread, and neither the route nor Llama takes a     *)
(* lock                                                                    *)
(***************************************************************************)
ConcurrentInit == InitEngines /\ has_cache = FALSE /\ weights \in Weights

\* the first request: greedy sampling, no stop string
ConcurrentRequest ==
    LlamaStartWith(FALSE, BOOLEAN, Prompts, 1..MaxLength, {<<>>}, {0}, {0})

\* a second thread enters generate while the first generation is in its
\* loop: the prologue of generate keeps the part of the live context that
\* is a prefix of its prompt and moves the cursor there, or resets it
SecondStart ==
    /\ engine = "llama" /\ pc = "decode" /\ other.pc = "idle"
    /\ \E p \in Prompts :
         LET longest_prefix ==
                 IF n_tokens > 0
                 THEN LongestPrefix(Take(self_input_ids, n_tokens), Take(p, Len(p) - 1))
                 ELSE 0
         IN  /\ n_tokens' = longest_prefix
             /\ other' = [pc |-> "decode", tokens |-> Drop(p, longest_prefix), sampled |-> 0]
    /\ UNCHANGED <<pc, steps, chunks, err, exit>>
    /\ UNCHANGED <<completion_tokens, text, returned_tokens, finish_reason, multibyte_fix,
                   self_input_ids, gen_tokens>>
    /\ UNCHANGED ctxVars
    /\ UNCHANGED reqVars
    /\ UNCHANGED glmVars
    /\ UNCHANGED <<lookup, mirostat_mode, mu_seed, mu>>
    /\ UNCHANGED penaltyVars
    /\ UNCHANGED routeVars

\* one iteration of the loop of generate in the second thread: eval of its
\* pending tokens at the cursor of the object, then sample
SecondStep ==
    /\ engine = "llama" /\ other.pc = "decode"
    /\ IF ~EvalFits(n_tokens, other.tokens)
       THEN /\ other' = [other EXCEPT !.pc = "error"]
            /\ kv' = Take(kv, n_tokens)
            /\ UNCHANGED <<n_tokens, self_input_ids, scores>>
       ELSE \E token \in SampleSet(temperature, mirostat_mode, weights,
                                   Take(kv, n_tokens) \o other.tokens) :
              /\ n_tokens' = n_tokens + Len(other.tokens)
              /\ self_input_ids' = EvalWrite(self_input_ids, n_tokens, other.tokens)
              /\ kv' = Take(kv, n_tokens) \o other.tokens
              /\ scores' = Take(kv, n_tokens) \o other.tokens
              /\ other' = [pc |-> IF token = LlamaEos \/ other.sampled + 1 >= max_tokens
                                  THEN "done" ELSE "decode",
                           tokens |-> <<token>>, sampled |-> other.sampled + 1]
    /\ UNCHANGED <<pc, steps, chunks, err, exit>>
    /\ UNCHANGED <<completion_tokens, text, returned_tokens, finish_reason, multibyte_fix,
                   gen_tokens>>
    /\ UNCHANGED <<temperature, weights, has_cache, cache, corrupted, yield_base, served,
                   cold>>
    /\ UNCHANGED reqVars
    /\ UNCHANGED glmVars
    /\ UNCHANGED <<lookup, mirostat_mode, mu_seed, mu>>
    /\ UNCHANGED penaltyVars
    /\ UNCHANGED routeVars

ConcurrentNext ==
    \/ ConcurrentRequest \/ LlamaStep \/ LlamaFlush \/ SecondStart \/ SecondStep

ConcurrentSpec == ConcurrentInit /\ [][ConcurrentNext]_vars

(***************************************************************************)
(* The chat route: a streaming request, the first response pulled by the   *)
(* route, the event publisher that forwards the chunks of iterator() into  *)
(* the channel, and the consumer of the channel                            *)
(***************************************************************************)
\* the chat chunks _create_chat_completion_stream has yielded so far
Items == ChatCompletionStream(chunks)

\* the size of the channel: anyio.create_memory_object_stream(10), scaled to
\* the lengths of the streams of the model
ChannelCapacity == 2

\* a channel that takes every chunk at once
ChanUnbounded(c) == TRUE

\* send completes only while the buffer holds less than max_buffer_size items
ChanHasRoom(c) == Len(c) < ChannelCapacity

\* an iterator() that leaves out the first response
SkipsFirstResponse(n) == FALSE

\* iterator(): its first value is first_response, the others come from the
\* generator of the engine
FromFirstResponse(n) == n = 0

\* next() was called on the generator and has not returned: by the route for
\* the first response, or by the publisher that holds no chunk
Demand ==
    /\ taken = Len(Items)
    /\ \/ route_pc = "first"
       \/ route_pc = "stream" /\ hand = NoChunk /\ ~FromFirstResponse(pulled)

\* create_chat_completion of the route with stream = true: the engine
\* returns its generator, nothing has run yet
RouteRequest ==
    /\ route_pc = "none"
    /\ GlmStartWith({TRUE}, Prompts, 2..MaxLength, {<<>>}, {DefaultSampling})
    /\ route_pc' = "first"
    /\ UNCHANGED <<first_response, taken, pulled, hand, chan, delivered>>
    /\ UNCHANGED <<lookup, other, mirostat_mode, mu_seed, mu>>
    /\ UNCHANGED penaltyVars

RouteGlmStep == Demand /\ GlmStep

RouteGlmFailure == Demand /\ GlmRuntimeFailure

RouteGlmFinal == Demand /\ GlmFinal

\* first_response = next(iterator_or_completion); an exception of the
\* generator leaves the route
RoutePullFirst ==
    /\ route_pc = "first"
    /\ \/ /\ Len(Items) > taken
          /\ first_response' = Items[taken + 1] /\ taken' = taken + 1
          /\ route_pc' = "stream"
       \/ /\ Len(Items) = taken /\ pc \in {"error", "done"}
          /\ route_pc' = "failed"
          /\ UNCHANGED <<first_response, taken>>
    /\ UNCHANGED <<pulled, hand, chan, delivered>>
    /\ UNCHANGED <<pc, steps, chunks, err, exit>>
    /\ UNCHANGED <<lookup, other, mirostat_mode, mu_seed, mu>>
    /\ UNCHANGED penaltyVars
    /\ UNCHANGED reqVars
    /\ UNCHANGED glmVars
    /\ UNCHANGED llamaVars
    /\ UNCHANGED ctxVars

\* the publisher takes the next chunk of iterator(), or finds it exhausted
PublisherNext ==
    /\ route_pc = "stream" /\ hand = NoChunk
    /\ IF FromFirstResponse(pulled)
       THEN /\ hand' = first_response /\ pulled' = pulled + 1
            /\ UNCHANGED <<taken, route_pc>>
       ELSE \/ /\ Len(Items) > taken
               /\ hand' = Items[taken + 1] /\ taken' = taken + 1 /\ pulled' = pulled + 1
               /\ UNCHANGED route_pc
            \/ /\ Len(Items) = taken /\ pc \in {"error", "done"}
               /\ route_pc' = "closed"
               /\ UNCHANGED <<hand, taken, pulled>>
    /\ UNCHANGED <<first_response, chan, delivered>>
    /\ UNCHANGED <<pc, steps, chunks, err, exit>>
    /\ UNCHANGED <<lookup, other, mirostat_mode, mu_seed, mu>>
    /\ UNCHANGED penaltyVars
    /\ UNCHANGED reqVars
    /\ UNCHANGED glmVars
    /\ UNCHANGED llamaVars
    /\ UNCHANGED ctxVars

\* the publisher sends the chunk it holds; it waits while the channel is full
PublisherSend ==
    /\ route_pc = "stream" /\ hand # NoChunk
    /\ ChanHasRoom(chan)
    /\ chan' = Append(chan, hand) /\ hand' = NoChunk
    /\ UNCHANGED <<route_pc, first_response, taken, pulled, delivered>>
    /\ UNCHANGED <<pc, steps, chunks, err, exit>>
    /\ UNCHANGED <<lookup, other, mirostat_mode, mu_seed, mu>>
    /\ UNCHANGED penaltyVars
    /\ UNCHANGED reqVars
    /\ UNCHANGED glmVars
    /\ UNCHANGED llamaVars
    /\ UNCHANGED ctxVars

\* the event stream takes a chunk from the channel
ConsumerReceive ==
    /\ chan # <<>>
    /\ delivered' = Append(delivered, Head(chan)) /\ chan' = Tail(chan)
    /\ UNCHANGED <<route_pc, first_response, taken, pulled, hand>>
    /\ UNCHANGED <<pc, steps, chunks, err, exit>>
    /\ UNCHANGED <<lookup, other, mirostat_mode, mu_seed, mu>>
    /\ UNCHANGED penaltyVars
    /\ UNCHANGED reqVars
    /\ UNCHANGED glmVars
    /\ UNCHANGED llamaVars
    /\ UNCHANGED ctxVars

RouteNext ==
    \/ RouteRequest \/ RouteGlmStep \/ RouteGlmFailure \/ RouteGlmFinal
    \/ RoutePullFirst \/ PublisherNext \/ PublisherSend \/ ConsumerReceive

RouteSpec == Init /\ [][RouteNext]_vars

(***************************************************************************)
(* Properties.                                                             *)
(***************************************************************************)
HasUsage(c) == "usage" \in DOMAIN c

LastChunk == chunks[Len(chunks)]

\* the text the generation has accumulated: bytes for Llama, str for chatglm.cpp
Accumulated == IF engine = "llama" THEN detokenize(completion_tokens)
               ELSE GlmDecode(output_ids)

\* the stop strings the engine is to honour
Configured == IF engine = "llama" THEN stop ELSE <<Observation>>

StopPositions(t, ss) == {Find(t, ss[k]) : k \in {j \in 1..Len(ss) : Contains(t, ss[j])}}

\* the runtime returned the eos token on the first decode step
EosFirst == \/ engine \in {"glm", "glm_v3_cpp"} /\ output_ids = <<GlmEos>>
            \/ engine = "llama" /\ completion_tokens = <<>> /\ gen_tokens = <<LlamaEos>>

\* the number of decode iterations the length limit allows
DecodeBudget == IF engine = "llama" THEN max_tokens ELSE max_tokens - Len(prompt_tokens)

\* the prompt is shorter than the context limit of the request
PromptFits == IF engine = "llama" THEN Len(prompt_tokens) < NCtx
              ELSE Len(prompt_tokens) < max_tokens

\* C1: every record or chunk that carries a usage block has
\* completion_tokens + prompt_tokens = total_tokens
C1_UsageAccounting ==
    \A i \in 1..Len(chunks) :
        HasUsage(chunks[i]) =>
            chunks[i].usage.completion_tokens + chunks[i].usage.prompt_tokens
                = chunks[i].usage.total_tokens

\* C1 witness: a stream of the chatglm.cpp engine has emitted a content chunk
\* and its final chunk, both with usage
C1_Witness ==
    /\ engine = "glm" /\ stream /\ pc = "done" /\ Len(chunks) >= 2
    /\ \A i \in 1..Len(chunks) : HasUsage(chunks[i])

\* C2: a chunk the chatglm.cpp engine emits carries prompt_tokens = the prompt
\* length and completion_tokens = the number of tokens generated so far, and
\* none of its usage fields is negative
C2_UsageCountsTokens ==
    [][(engine' = "glm" /\ Len(chunks') > Len(chunks)) =>
          LET u == chunks'[Len(chunks')].usage
          IN  /\ u.prompt_tokens = Len(prompt_tokens')
              /\ u.completion_tokens = Len(output_ids')
              /\ u.prompt_tokens >= 0 /\ u.completion_tokens >= 0 /\ u.total_tokens >= 0]_vars

\* C3: when the runtime returns eos on the first decode step, the generation
\* makes exactly one decode step and its terminal record has finish_reason
\* "stop", completion_tokens = 1 and total_tokens = L + 1
C3_EosFirstStep ==
    (pc = "done" /\ EosFirst) =>
        /\ steps = 1
        /\ LastChunk.finish_reason = "stop"
        /\ HasUsage(LastChunk) =>
              /\ LastChunk.usage.completion_tokens = 1
              /\ LastChunk.usage.total_tokens = Len(prompt_tokens) + 1

\* C4: the decode loop makes at most max_length - L decode iterations
\* (max_tokens iterations in Llama._create_completion)
C4_DecodeBound ==
    (engine # "none" /\ PromptFits) => steps <= DecodeBudget

\* C5: when the accumulated text contains a configured stop string, the final
\* text is the accumulated text before the first stop string
C5_FinalTextBeforeStop ==
    (/\ pc = "done"
     /\ \/ engine = "llama" /\ ~stream
        \/ engine = "glm" /\ stream
     /\ StopPositions(Accumulated, Configured) # {}) =>
        LET before == Take(Accumulated, SetMin(StopPositions(Accumulated, Configured)))
        IN  LastChunk.text = IF engine = "llama" THEN Utf8Ignore(before) ELSE before

RECURSIVE Texts(_)
Texts(cs) == IF cs = <<>> THEN <<>> ELSE Head(cs).text \o Texts(Tail(cs))

\* C6: in a Llama stream whose text contains a stop string, no fragment
\* contains a stop string and the fragments concatenate to the text before
\* the stop string
C6_StreamStopsClean ==
    (/\ pc = "done" /\ engine = "llama" /\ stream
     /\ StopPositions(Accumulated, Configured) # {}) =>
        /\ \A i \in 1..Len(chunks) : \A k \in 1..Len(stop) :
               ~Contains(chunks[i].text, stop[k])
        /\ Texts(chunks) =
               Utf8Ignore(Take(Accumulated, SetMin(StopPositions(Accumulated, Configured))))

\* C7: while a generation of the chatglm.cpp engine goes on, its text contains
\* none of the stop strings of the request
C7_RequestStopHonoured ==
    (engine = "glm" /\ pc \in {"decode", "generate"}) =>
        \A k \in 1..Len(stop) : ~Contains(GlmDecode(output_ids), stop[k])

\* C8: a finished chat stream is a role chunk with empty text, then content
\* chunks without finish_reason, then exactly one chunk with a finish_reason,
\* which has an empty delta and is the last one
C8_ChatStreamShape ==
    (pc = "done" /\ engine = "glm" /\ stream) =>
        LET cs == ChatCompletionStream(chunks)
        IN  /\ Len(cs) >= 2
            /\ cs[1].role = "assistant" /\ cs[1].content = <<>> /\ cs[1].finish_reason = "null"
            /\ \A i \in 1..(Len(cs) - 1) : cs[i].finish_reason = "null"
            /\ cs[Len(cs)].finish_reason # "null"
            /\ ~cs[Len(cs)].has_content /\ cs[Len(cs)].role = "none"

\* C9: a generation that ended because the token count reached the limit
\* reports finish_reason "length" in its terminal record
C9_LengthReported ==
    (pc = "done" /\ PromptFits /\ exit = "length") => LastChunk.finish_reason = "length"

\* C10: a generation that ended on a stop string reports the stop
\* classification in its last chunk
C10_StopClassified ==
    (pc = "done" /\ exit = "stop") =>
        LastChunk.finish_reason = IF engine = "llama" THEN "stop" ELSE "function_call"

\* the error a request is rejected with when its prompt does not fit the context
ContextOverflow == "ValueError"

\* C11: a request whose prompt is at least as long as the maximum context
\* length runs no decode step and yields no chunk, and it ends rejected with
\* the context-overflow error
C11_OverflowRejected ==
    (engine # "none" /\ ~PromptFits) =>
        /\ steps = 0 /\ chunks = <<>>
        /\ pc \in {"done", "error"} => (pc = "error" /\ err = ContextOverflow)

\* the completion holds the lead byte of U+20AC in one token and its
\* continuation bytes in the next one
SplitCodepoint ==
    \E i \in 1..(Len(completion_tokens) - 1) :
        completion_tokens[i] = 25 /\ completion_tokens[i + 1] \in {26, 27}

\* C14: in a Llama stream without stop strings whose tokens split a 3-byte
\* code point, every fragment is well-formed UTF-8 without a replacement
\* character, and once the generation is done with a well-formed text the
\* fragments concatenate to that text, the split code point included
C14_SplitCodepointEmitted ==
    (engine = "llama" /\ stream /\ stop = <<>> /\ SplitCodepoint) =>
        /\ \A i \in 1..Len(chunks) :
               /\ Utf8Valid(chunks[i].text)
               /\ ~Contains(chunks[i].text, <<239, 191, 189>>)
        /\ (pc = "done" /\ Utf8Valid(Accumulated)) => Texts(chunks) = Accumulated

\* a is a proper prefix of b
IsStrictPrefix(a, b) == Len(a) < Len(b) /\ Take(b, Len(a)) = a

\* the cache holds an entry stored under the key
Cached(key) == \E i \in 1..Len(cache) : cache[i].key = key

\* the second request has passed the prologue of generate, its prompt extends
\* the prompt of the first request, whose final state is in the cache
SecondExtendsFirst ==
    /\ engine = "llama" /\ served = 2 /\ pc = "decode" /\ steps = 0
    /\ cold # NoRun /\ IsStrictPrefix(cold.prompt_tokens, prompt_tokens)
    /\ Cached(cold.prompt_tokens \o cold.completion_tokens)

\* C12: when the second prompt extends the first and the final state of the
\* first request is cached, the tokens handed to the prefill eval of the
\* second request are the tokens after the shared prefix, and the cursor
\* stands at the end of the shared prefix
C12_PrefillOnlySuffix ==
    SecondExtendsFirst =>
        /\ gen_tokens = Drop(prompt_tokens, Len(cold.prompt_tokens))
        /\ n_tokens = Len(cold.prompt_tokens)

C12_Witness ==
    /\ SecondExtendsFirst
    /\ gen_tokens = Drop(prompt_tokens, Len(cold.prompt_tokens))
    /\ Len(gen_tokens) = 2

\* the generation has the request of the first (cold) generation, with
\* greedy sampling, and has left its decode loop
WarmRepeat ==
    /\ engine = "llama" /\ served > 1 /\ pc \in {"flush", "save", "done"}
    /\ cold # NoRun /\ temperature = 0 /\ cold.temperature = 0
    /\ prompt_tokens = cold.prompt_tokens /\ max_tokens = cold.max_tokens
    /\ stop = cold.stop

\* C13: with temperature 0, a later generation of the prompt of the first
\* generation (which started from an empty context and an empty cache) has
\* the same completion tokens and the same text as the first one
C13_WarmEqualsCold ==
    WarmRepeat =>
        /\ completion_tokens = cold.completion_tokens
        /\ text = cold.text

\* C15: when a generation with a cache has ended and its consumer holds the
\* terminal record, the cache holds the final context state under the key
\* prompt + completion
C15_FinalStateStored ==
    (/\ engine = "llama" /\ has_cache /\ pc \in {"done", "cancelled"}
     /\ chunks # <<>> /\ LastChunk.finish_reason # "null") =>
        \E i \in 1..Len(cache) : cache[i].key = CacheKey /\ cache[i].state = save_state

\* C16: from the step that cancels a generation on, and until the next
\* request starts, no chunk is added and the cache is not written
C16_CancelledIsSilent ==
    [][(pc' = "cancelled" /\ served' = served) =>
           /\ cache' = cache
           /\ Len(chunks') <= Len(chunks) /\ chunks' = Take(chunks, Len(chunks'))]_vars

C16_Witness ==
    /\ engine = "llama" /\ pc = "cancelled" /\ has_cache /\ chunks # <<>>
    /\ completion_tokens # <<>> /\ exit = "none"

\* C17: a step in which load_state fails leaves the history, the cursor and
\* the scores of the live context as they were
C17_FailedLoadNotApplied ==
    [][(pc' = "error" /\ err' = LoadStateError /\ served' # served) =>
           /\ n_tokens' = n_tokens
           /\ Take(self_input_ids', n_tokens') = Take(self_input_ids, n_tokens)
           /\ scores' = scores]_vars

\* C18: no request ends with the error of a failed cache load
C18_CacheFailureNotSurfaced ==
    (engine = "llama" /\ pc = "error") => err # LoadStateError

\* the finish reasons of a normal end
NormalFinish == {"stop", "length", "function_call"}

\* C19: a stream whose runtime call failed inside the decode loop, after
\* fragments were emitted, ends with a record whose finish reason is neither
\* null nor a normal finish reason
C19_RuntimeFailureMarked ==
    (stream /\ pc = "error" /\ err = "RuntimeError" /\ chunks # <<>>) =>
        LastChunk.finish_reason \notin (NormalFinish \cup {"null"})

\* the request sets top_p to a value that is not positive
OutOfRange == kwargs.top_p # None /\ kwargs.top_p <= 0

\* C20: a chat request with an out-of-range sampling value makes no runtime
\* call and yields no chunk, and it ends with an invalid-parameter error
C20_InvalidSamplingRejected ==
    (engine = "glm" /\ OutOfRange) =>
        /\ steps = 0 /\ chunks = <<>>
        /\ pc \in {"done", "error"} => (pc = "error" /\ err = "InvalidSamplingParameter")

\* C21: while the first generation is in its decode loop, a step of the
\* second generation changes neither the token history, nor the cursor, nor
\* the scores, nor the runtime state of the context the first one uses
C21_ContextNotShared ==
    [][(pc = "decode" /\ engine = "llama" /\ other' # other) =>
           UNCHANGED <<n_tokens, self_input_ids, scores, kv>>]_vars

\* the chunks that left the generator and have not reached the consumer: the
\* first response while the publisher has not taken it, the chunk the
\* publisher holds, the chunks in the channel
Pending ==
    (IF pulled = 0 /\ first_response # NoChunk THEN <<first_response>> ELSE <<>>)
    \o chan \o (IF hand # NoChunk THEN <<hand>> ELSE <<>>)

\* C22: the chunks the consumer has received, followed by those on their
\* way to it, are the chunks taken from the generator of the engine, in the
\* order the engine yielded them, each once, the first response first
C22_DeliveredInOrder ==
    /\ delivered \o Pending = Take(Items, taken)
    /\ taken <= Len(Items)

C22_Witness ==
    /\ Len(delivered) >= 3 /\ delivered = Take(Items, Len(delivered))
    /\ delivered[1] = first_response /\ route_pc = "closed" /\ Pending = <<>>

\* the number of chunks produced and not yet taken by the consumer
InFlight == taken - Len(delivered)

\* C23 as stated: at most ChannelCapacity chunks are produced and not yet
\* taken by the consumer
C23_InFlightWithinCapacity == InFlight <= ChannelCapacity

\* C23: the channel never holds more than its capacity, and besides the
\* chunks in the channel only the one chunk the waiting publisher holds is
\* produced and not yet taken; the generator is not asked for more meanwhile
C23_BoundedChannel ==
    /\ Len(chan) <= ChannelCapacity
    /\ InFlight <= ChannelCapacity + 1
    /\ (hand # NoChunk /\ ~ChanHasRoom(chan)) => ~Demand

C23_Witness ==
    /\ Len(chan) = ChannelCapacity /\ hand # NoChunk /\ InFlight = ChannelCapacity + 1
    /\ Len(Items) = taken /\ pc = "decode"

\* C24: the cursor of the context never exceeds the context length
C24_CursorWithinContext ==
    engine = "llama" => (n_tokens <= NCtx /\ Len(self_input_ids) <= NCtx)

\* tokens withheld as incomplete multi-byte sequences took the loop past
\* max_tokens, up to the end of the context window, where eval failed
C24_Witness ==
    /\ engine = "llama" /\ n_tokens = NCtx /\ Len(completion_tokens) > max_tokens
    /\ pc = "error" /\ err = "RuntimeError"

\* the length of the common prefix of the history of a context state (the
\* first n_tokens entries of its input_ids) and a prompt
HistoryPrefix(ids, n, p) == LongestPrefix(Take(ids, n), p)

\* C25: a request whose lookup returned a cached state loads it if and only
\* if the history of that state shares a strictly longer prefix with the
\* prompt than the history of the live context does
C25_LoadIffLonger ==
    [][(served' # served /\ lookup'.hit # 0) =>
           LET item == cache[lookup'.hit].state
           IN  lookup'.loads <=>
                   HistoryPrefix(item.input_ids, item.n_tokens, prompt_tokens')
                     > HistoryPrefix(self_input_ids, n_tokens, prompt_tokens')]_vars

\* what a cached entry holds of a context state: token history, scores, cursor
EntryContents(c) ==
    [i \in 1..Len(c) |->
        [key |-> c[i].key, input_ids |-> c[i].state.input_ids,
         scores |-> c[i].state.scores, n_tokens |-> c[i].state.n_tokens]]

\* C26: the cache holds copies: a step of the decode loop (eval and sample)
\* and a request start (lookup and load_state) change the token history, the
\* scores and the cursor of no cached entry, the loaded one included
C26_CacheHoldsCopy ==
    [][(engine = "llama" /\ (steps' # steps \/ served' # served))
          => EntryContents(cache') = EntryContents(cache)]_vars

\* the live context has moved on from the entry it was loaded from
C26_Witness ==
    /\ engine = "llama" /\ pc \in {"decode", "flush"} /\ steps >= 1
    /\ lookup.hit # 0 /\ lookup.loads
    /\ cache[lookup.hit].state.input_ids # self_input_ids
    /\ cache[lookup.hit].state.scores # scores

\* the stop strings of the list of which a proper prefix ends the reply
PartialMatches(reply, stop_strings) ==
    {k \in 1..Len(stop_strings) : PartialMatch(reply, stop_strings[k]) > 0}

LongestPartial(reply, stop_strings) ==
    SetMax({PartialMatch(reply, stop_strings[k]) : k \in PartialMatches(reply, stop_strings)})

\* C27: when no stop string occurs in the reply and its tail matches a proper
\* prefix of several stop strings, the suffix that is trimmed is the longest
\* of those matches, whatever the order of the list
C27_LongestPartialTrimmed ==
    [][(/\ pc = "call" /\ pc' = "returned"
        /\ FirstFound(response, stop, 1) = 0
        /\ Cardinality(PartialMatches(response, stop)) >= 2)
          => /\ stop_found' = "false"
             /\ response' = Take(response, Len(response) - LongestPartial(response, stop))]_vars

\* C28: in every iteration of the decode loop of create_steam_completion that
\* reads the stop flag (the decoded response is not empty), the flag has the
\* value of that iteration: true if the stop-string check ran and found a
\* stop string, false otherwise, also when the fragment is withheld
C28_StopFlagSetEachIteration ==
    [][(engine = "glm" /\ pc = "decode" /\ steps' = steps + 1
          /\ GlmDecode(output_ids') # <<>>)
          => LET raw   == GlmDecode(output_ids')
                 found == apply_stopping_strings(raw, <<Observation>>)[2]
             IN  /\ err' # "UnboundLocalError"
                 /\ stop_found' = IF ~EndsWithPunct(raw) /\ found THEN "true"
                                  ELSE "false"]_vars

\* C29: in mirostat mode the first sample call of a generation starts from
\* mu = 2 * tau, and every later one from the mu the previous call ended with
C29_MuCarriedAcrossCalls ==
    [][(engine = "llama" /\ pc = "decode" /\ steps' = steps + 1
          /\ UsesMirostat(temperature, mirostat_mode))
          => mu_seed' = IF steps = 0 THEN MirostatSeed ELSE mu]_vars

\* C30: with temperature < 0 every candidate can be the token that sample
\* returns
C30_NegativeTemperatureDrawsFromAll ==
    (engine = "llama" /\ pc = "decode" /\ temperature < 0 /\ EvalFits(n_tokens, gen_tokens))
        => SampleSet(temperature, mirostat_mode, weights, Take(kv, n_tokens) \o gen_tokens)
             = LlamaVocab

\* C31: with temperature = 0 the token that a decode step samples is the
\* argmax of the logits row, whatever the mirostat mode of the request
C31_GreedyWhateverTheMode ==
    [][(engine = "llama" /\ pc = "decode" /\ temperature = 0 /\ steps' = steps + 1)
          => /\ gen_tokens' = <<Argmax(weights, scores')>>
             /\ UNCHANGED <<mu_seed, mu>>]_vars

\* a greedy request in mirostat mode has sampled a token
C31_Witness ==
    /\ engine = "llama" /\ temperature = 0 /\ mirostat_mode \in {1, 2}
    /\ steps >= 1 /\ completion_tokens # <<>>

\* C32: after the penalty stage the newline candidate holds the logit it had
\* before the stage when penalize_nl is false and the penalized one when it
\* is true; every other candidate holds its penalized logit
C32_NewlineRestored ==
    (pc = "returned" /\ candidates # <<>>) =>
        LET penalized == sample_repetition_penalties(copy_logits(logits), last_tokens)
        IN  \A i \in 1..Len(logits) :
              /\ candidates[i].id = i - 1
              /\ candidates[i].logit =
                   IF candidates[i].id = token_nl /\ ~penalize_nl THEN logits[i]
                   ELSE penalized[i].logit

\* the newline token was among the recent tokens and its logit was put back
C32_Witness ==
    /\ pc = "returned" /\ candidates # <<>> /\ ~penalize_nl /\ token_nl \in last_tokens
    /\ candidates[token_nl + 1].logit = logits[token_nl + 1]
    /\ \E i \in 1..Len(logits) : candidates[i].logit # logits[i]

C34_HistoryIsPrompt ==
    [][(engine = "llama" /\ pc = "decode" /\ steps = 0 /\ steps' = 1)
          => Take(self_input_ids', n_tokens') = prompt_tokens]_vars

\* the prefill has run after a cached state with a longer history was loaded
C34_Witness ==
    /\ engine = "llama" /\ steps = 1 /\ lookup.hit # 0 /\ lookup.loads
    /\ cache[lookup.hit].state.n_tokens > Len(prompt_tokens)
    /\ Take(self_input_ids, n_tokens) = prompt_tokens

\* C35: the first eval of every request evaluates at least the last prompt
\* token: the cursor stands before it, the tokens handed to eval are the
\* rest of the prompt, and the row that is sampled from is the one of this
\* evaluation
C35_LastPromptTokenEvaluated ==
    [][(engine = "llama" /\ pc = "decode" /\ steps = 0 /\ steps' = 1)
          => /\ n_tokens < Len(prompt_tokens)
             /\ gen_tokens # <<>>
             /\ gen_tokens = Drop(prompt_tokens, n_tokens)
             /\ scores' = Take(kv, n_tokens) \o gen_tokens]_vars

\* the live history holds the whole prompt of a later request, and generate
\* has set the cursor before the last prompt token
C35_Witness ==
    /\ engine = "llama" /\ pc = "decode" /\ steps = 0 /\ served >= 2
    /\ Take(self_input_ids, Len(prompt_tokens)) = prompt_tokens
    /\ Len(kv) >= Len(prompt_tokens)
    /\ n_tokens = Len(prompt_tokens) - 1
    /\ gen_tokens = <<prompt_tokens[Len(prompt_tokens)]>>

C37_StreamEqualsRecord ==
    (pc = "done" /\ engine = "llama" /\ stream) => Texts(chunks) = Utf8Ignore(text)

\* the content deltas of a chat stream, concatenated
RECURSIVE Contents(_)
Contents(cs) == IF cs = <<>> THEN <<>> ELSE Head(cs).content \o Contents(Tail(cs))

\* the decoded output, truncated at the stop string if it holds one
FinalText ==
    LET decoded == GlmDecode(output_ids)
    IN  IF Contains(decoded, Observation) THEN Take(decoded, Find(decoded, Observation))
        ELSE decoded

\* C38: the content deltas of a finished chat stream of the chatglm.cpp
\* engine concatenate to the final text of the generation (taken here for
\* generations whose output does not end in the beginning of the stop string)
C38_DeltasAreFinalText ==
    (/\ pc = "done" /\ engine = "glm" /\ stream /\ output_ids # <<>>
     /\ PartialMatch(GlmDecode(output_ids), Observation) = 0)
        => Contents(ChatCompletionStream(chunks)) = FinalText

\* C39: the final text of a completed Llama generation (the text of the
\* record, or the fragments of the stream together) contains none of the
\* configured stop strings
C39_NoStopInFinalText ==
    (pc = "done" /\ engine = "llama") =>
        LET final == IF stream THEN Texts(chunks) ELSE LastChunk.text
        IN  \A k \in 1..Len(stop) : ~Contains(final, stop[k])

\* C40: every call of generate_next_token in the decode loops of the
\* chatglm.cpp engine gets the whole history (the prompt and the tokens
\* generated so far) and a cursor that is 0 on the first call and the
\* history length minus one afterwards; the iteration appends one token
C40_RuntimeCallArguments ==
    [][(engine \in {"glm", "glm_v3_cpp"} /\ pc = "decode" /\ steps' = steps + 1)
          => /\ input_ids = prompt_tokens \o output_ids
             /\ n_past = IF steps = 0 THEN 0 ELSE Len(input_ids) - 1
             /\ Len(input_ids') = Len(input_ids) + 1
             /\ Take(input_ids', Len(input_ids)) = input_ids]_vars

\* the loop is about to make its third call of the runtime
C40_Witness ==
    /\ engine \in {"glm", "glm_v3_cpp"} /\ pc = "decode" /\ steps = 2
    /\ Len(input_ids) = Len(prompt_tokens) + 2 /\ n_past = Len(input_ids) - 1
====
